---- MODULE Spec2Model ----
(***************************************************************************)
(* A model of the palworld-rcon Client (rcon.go): the connection manager   *)
(* (NewClient, Close, connect), the command executor (executeWithRetry)    *)
(* and the public commands with their response decoders.                   *)
(*                                                                         *)
(* Text is a sequence of one-character strings.  An error is the chain of  *)
(* its messages, outermost first; the nil error is the empty chain.  The   *)
(* transport (gorcon's rcon.Dial, Conn.Execute, Conn.Close) is external,   *)
(* so each of its calls yields every outcome of a small set; an operator   *)
(* that models code which calls the transport therefore yields the SET of  *)
(* its possible results, each with the state it leaves behind.             *)
(***************************************************************************)
EXTENDS Integers, Sequences, FiniteSets, TLC

\* Bounds of the model.
MaxConns == 3

VARIABLES
  client,   \* the Client struct: [address, password, conn], conn = 0 is nil
  conns,    \* every rcon.Conn dialed so far: [address, password, closes]
  log,      \* the transport calls made by the latest API call, in order
  last,     \* the latest API call and what it returned
  procs     \* the goroutines that share the Client, where calls overlap (SpecConc)

vars == <<client, conns, log, last, procs>>

----------------------------------------------------------------------------
\* Text helpers (strings, fmt).

HasPrefix(s, prefix) ==
  Len(s) >= Len(prefix) /\ SubSeq(s, 1, Len(prefix)) = prefix

IsSpace(ch) == ch \in {" ", "\t", "\n", "\r", "\f"}

RECURSIVE TrimLeft(_)
TrimLeft(s) ==
  IF s # << >> /\ IsSpace(Head(s)) THEN TrimLeft(Tail(s)) ELSE s

RECURSIVE TrimRight(_)
TrimRight(s) ==
  IF s # << >> /\ IsSpace(s[Len(s)]) THEN TrimRight(SubSeq(s, 1, Len(s) - 1)) ELSE s

TrimSpace(s) == TrimRight(TrimLeft(s))

DigitChar(d) == <<"0", "1", "2", "3", "4", "5", "6", "7", "8", "9">>[d + 1]

\* The decimal numeral of a natural number: fmt's %d.
RECURSIVE FormatInt(_)
FormatInt(n) ==
  IF n < 10 THEN <<DigitChar(n)>> ELSE FormatInt(n \div 10) \o <<DigitChar(n % 10)>>

----------------------------------------------------------------------------
\* Errors.

Nil == << >>

\* errors.New(text)
NewError(text) == <<text>>

\* fmt.Errorf(text + "%w", err): the new message ends with err's, and err is kept below it.
Wrapf(text, err) == <<text \o err[1]>> \o err

\* errors.Is(err, target): target is err or one of the errors err wraps.
errorsIs(err, target) ==
  \E i \in 1..Len(err) : SubSeq(err, i, Len(err)) = target

EOF == NewError(<<"E", "O", "F">>)
EPIPE == NewError(<<"b", "r", "o", "k", "e", "n", " ", "p", "i", "p", "e">>)
ErrWriteEPIPE == Wrapf(<<"w", "r", "i", "t", "e", " ", "t", "c", "p", ":", " ">>, EPIPE)
ErrInvalidPacketID == NewError(<<"i", "n", "v", "a", "l", "i", "d", " ", "p", "a", "c", "k", "e", "t", " ", "i", "d">>)
ErrAuthFailed == NewError(<<"a", "u", "t", "h", "e", "n", "t", "i", "c", "a", "t", "i", "o", "n", " ", "f", "a", "i", "l", "e", "d">>)
ErrCloseFailed == NewError(<<"c", "l", "o", "s", "e", " ", "t", "c", "p">>)

----------------------------------------------------------------------------
\* The transport: what rcon.Dial, Conn.Execute and Conn.Close may answer.

DialErrors == {ErrAuthFailed}
CloseErrors == {ErrCloseFailed}
ExecuteErrors == {EOF, ErrWriteEPIPE, ErrInvalidPacketID}

\* A transport call in the log: the call, the connection it was made on (or
\* returned), its argument, the reply read (of Execute), its error, and the
\* connection r.conn held when the call was made.
Entry(st, op, conn, arg, err) ==
  [op |-> op, conn |-> conn, arg |-> arg, reply |-> << >>, err |-> err,
   owned |-> st.client.conn]

\* rcon.Dial(address, password): an error, or a new connection.
Dial(st, address, password) ==
  { [st |-> [st EXCEPT !.log = Append(@, Entry(st, "Dial", 0, <<address, password>>, e))],
     conn |-> 0, err |-> e] : e \in DialErrors }
  \cup
  { LET id == Len(st.conns) + 1 IN
    [st |-> [st EXCEPT
               !.conns = Append(@, [address |-> address, password |-> password, closes |-> 0]),
               !.log = Append(@, Entry(st, "Dial", id, <<address, password>>, Nil))],
     conn |-> id, err |-> Nil] }

\* rcon.Conn.Close(), called on connection id.
ConnClose(st, id) ==
  { [st |-> [st EXCEPT !.conns[id].closes = @ + 1,
                       !.log = Append(@, Entry(st, "Close", id, << >>, e))],
     err |-> e] : e \in {Nil} \cup CloseErrors }

\* What the server answers to a command, by the command's name (its first word).
\* Replies carry the padding TrimSpace removes and, per command, an accepted
\* and a rejected answer.
CommandName(command) ==
  LET RECURSIVE Word(_)
      Word(s) == IF s = << >> \/ Head(s) = " " THEN << >> ELSE <<Head(s)>> \o Word(Tail(s))
  IN Word(command)

PlayersHeader == <<"n", "a", "m", "e", ",", "p", "l", "a", "y", "e", "r", "u", "i", "d", ",", "s", "t", "e", "a", "m", "i", "d", "\n">>

Replies(command) ==
  LET name == CommandName(command) IN
  CASE name = <<"B", "a", "n", "P", "l", "a", "y", "e", "r">> -> {<<"B", "a", "n", "e", "d", ":", " ", "4", "2", "\n">>, <<"F", "a", "i", "l", "e", "d", " ", "t", "o", " ", "B", "a", "n", ":", " ", "4", "2">>}
    [] name = <<"B", "r", "o", "a", "d", "c", "a", "s", "t">> -> {<<"B", "r", "o", "a", "d", "c", "a", "s", "t", "e", "d", ":", " ", "h", "i", "\n">>, <<"\n">>}
    [] name = <<"D", "o", "E", "x", "i", "t">> -> {<<"S", "h", "u", "t", "d", "o", "w", "n", ".", ".", ".", "\n">>, <<"S", "h", "u", "t", "d", "o", "w", "n">>}
    [] name = <<"I", "n", "f", "o">> -> {<<"W", "e", "l", "c", "o", "m", "e", " ", "t", "o", " ", "P", "a", "l", " ", "S", "e", "r", "v", "e", "r", "[", "v", "0", ".", "1", ".", "2", "]", " ", "M", "y", " ", "P", "a", "l", "\n">>, <<"W", "e", "l", "c", "o", "m", "e">>}
    [] name = <<"K", "i", "c", "k", "P", "l", "a", "y", "e", "r">> -> {<<" ", "K", "i", "c", "k", "e", "d", ":", " ", "4", "2">>, <<"F", "a", "i", "l", "e", "d", " ", "t", "o", " ", "K", "i", "c", "k", ":", " ", "4", "2">>}
    [] name = <<"S", "a", "v", "e">> -> {<<"C", "o", "m", "p", "l", "e", "t", "e", " ", "S", "a", "v", "e", "\n">>, <<"S", "a", "v", "i", "n", "g">>}
    [] name = <<"S", "h", "o", "w", "P", "l", "a", "y", "e", "r", "s">> ->
         {PlayersHeader \o <<"A", ",", "1", ",", "2", "\n", "B", ",", "3", ",", "4", "\n">>,
          PlayersHeader \o <<"A", ",", "1", ",", "2", "\n", "B", ",", "x", ",", "4", "\n">>,
          PlayersHeader \o <<"A", ",", "1", "\n">>,
          PlayersHeader,
          <<"\n">>}
    [] name = <<"S", "h", "u", "t", "d", "o", "w", "n">> -> {<<"T", "h", "e", " ", "s", "e", "r", "v", "e", "r", " ", "w", "i", "l", "l", " ", "s", "h", "u", "t", " ", "d", "o", "w", "n", " ", "i", "n", " ", "5", " ", "s", "e", "c", "o", "n", "d", "s", ".", "\n">>, <<"U", "n", "k", "n", "o", "w", "n", " ", "c", "o", "m", "m", "a", "n", "d">>}
    [] OTHER -> {<< >>}

\* A second server, whose answers cover the ways a reply can meet or miss what
\* a command looks for: padding to trim, a prefix cut short or followed by
\* more text, a different case, and player tables of every shape.
OtherAddresses == {"10.0.0.2:25575"}

PlayerTables ==
  { PlayersHeader \o <<"A", ",", "1", ",", "2", "\n", "B", ",", "3", ",", "4", "\n">>,
    PlayersHeader \o <<"A", ",", "0", "0", "7", ",", "1", "8", "4", "4", "6", "7", "4", "4", "0", "7", "3", "7", "0", "9", "5", "5", "1", "6", "1", "5", "\n">>,
    PlayersHeader \o <<"A", ",", "1", ",", "1", "8", "4", "4", "6", "7", "4", "4", "0", "7", "3", "7", "0", "9", "5", "5", "1", "6", "1", "6", "\n">>,
    PlayersHeader \o <<"A", ",", "-", "1", ",", "2", "\n", "B", ",", "3", ",", "4", "\n">>,
    PlayersHeader \o <<"A", ",", "1", ",", "2", "\n", "B", ",", "3", ",", "\n">>,
    PlayersHeader \o <<"A", ",", "1", ",", "2", "\n", "B", ",", "3", ",", "4", ",", "5", "\n">>,
    PlayersHeader \o <<"A", ",", "1", ",", "2", "\n", "\n", "B", " ", "b", ",", "3", ",", "4", " ", "\n">>,
    <<" ", "\r", "\n">> \o PlayersHeader \o <<"C", ",", "9", ",", "8">>,
    <<"n", "a", "m", "e", ",", "p", "l", "a", "y", "e", "r", "u", "i", "d", "\n", "A", ",", "1", ",", "2", "\n">>,
    <<"n", "a", "m", "e", ",", "p", "l", "a", "y", "e", "r", "u", "i", "d", "\n", "A", ",", "1", "\n">>,
    <<"n", "a", "m", "e", ",", "p", "l", "a", "y", "e", "r", "u", "i", "d", "\n">>,
    <<"n", "a", "m", "e", ",", "p", "l", "a", "y", "e", "r", "u", "i", "d", ",", "s", "t", "e", "a", "m", "i", "d", ",", "i", "p", "\n", "A", ",", "1", ",", "2", "\n">>,
    <<"n", "a", "m", "e", "\n">>,
    <<" ", "\n", "\t">> }

OtherReplies(command) ==
  LET name == CommandName(command) IN
  CASE name = <<"B", "a", "n", "P", "l", "a", "y", "e", "r">> ->
         {<<"B", "a", "n", "e", "d", ":", " ", "4", "2">>, <<" ", "\t", "B", "a", "n", "e", "d", ":", " ", "4", "2", " ", "i", "s", " ", "o", "u", "t", "\r", "\n">>, <<"B", "a", "n", "e", "d", ":", " ", "\n">>, <<"B", "a", "n", "e", "d", ":", "4", "2">>,
          <<"b", "a", "n", "e", "d", ":", " ", "4", "2">>, <<"B", "a", "n", "n", "e", "d", ":", " ", "4", "2">>, <<"n", "o", "t", " ", "B", "a", "n", "e", "d", ":", " ", "4", "2">>, <<>>}
    [] name = <<"B", "r", "o", "a", "d", "c", "a", "s", "t">> ->
         {<<"B", "r", "o", "a", "d", "c", "a", "s", "t", "e", "d", ":", " ", "h", "i">>, <<"\n", "B", "r", "o", "a", "d", "c", "a", "s", "t", "e", "d", ":", " ", "h", "i", " ", "t", "h", "e", "r", "e", " ", "\n">>, <<"B", "r", "o", "a", "d", "c", "a", "s", "t", "e", "d", ":", " ", "\n">>,
          <<"B", "r", "o", "a", "d", "c", "a", "s", "t", "e", "d", ":", "h", "i">>, <<"B", "r", "o", "a", "d", "c", "a", "s", "t", ":", " ", "h", "i">>, <<"u", "n", "-", "B", "r", "o", "a", "d", "c", "a", "s", "t", "e", "d", ":", " ", "h", "i">>, <<" ">>}
    [] name = <<"D", "o", "E", "x", "i", "t">> ->
         {<<"S", "h", "u", "t", "d", "o", "w", "n", ".", ".", ".">>, <<" ", "S", "h", "u", "t", "d", "o", "w", "n", ".", ".", ".", "\r", "\n">>, <<"S", "h", "u", "t", "d", "o", "w", "n", ".", ".", ".", " ", "n", "o", "w", "\n">>, <<"S", "h", "u", "t", "d", "o", "w", "n", ".", ".">>,
          <<"s", "h", "u", "t", "d", "o", "w", "n", ".", ".", ".">>, <<"N", "o", " ", "S", "h", "u", "t", "d", "o", "w", "n", ".", ".", ".">>, <<>>}
    [] name = <<"I", "n", "f", "o">> -> {<<"W", "e", "l", "c", "o", "m", "e", " ", "t", "o", " ", "P", "a", "l", " ", "S", "e", "r", "v", "e", "r", "[", "v", "0", ".", "1", ".", "2", "]", " ", "M", "y", " ", "P", "a", "l", "\n">>, <<"W", "e", "l", "c", "o", "m", "e">>}
    [] name = <<"K", "i", "c", "k", "P", "l", "a", "y", "e", "r">> ->
         {<<"K", "i", "c", "k", "e", "d", ":", " ", "4", "2">>, <<"\t", "K", "i", "c", "k", "e", "d", ":", " ", "4", "2", " ", "a", "n", "d", " ", "g", "o", "n", "e", "\n">>, <<"K", "i", "c", "k", "e", "d", ":", " ", "\n">>, <<"K", "i", "c", "k", "e", "d", ":", "4", "2">>,
          <<"k", "i", "c", "k", "e", "d", ":", " ", "4", "2">>, <<"K", "i", "c", "k", ":", " ", "4", "2">>, <<"n", "o", "t", " ", "K", "i", "c", "k", "e", "d", ":", " ", "4", "2">>, <<"\n">>}
    [] name = <<"S", "a", "v", "e">> ->
         {<<"C", "o", "m", "p", "l", "e", "t", "e", " ", "S", "a", "v", "e">>, <<"\n", "C", "o", "m", "p", "l", "e", "t", "e", " ", "S", "a", "v", "e", " ", "\n">>, <<"C", "o", "m", "p", "l", "e", "t", "e", " ", "S", "a", "v", "e", ".">>, <<"C", "o", "m", "p", "l", "e", "t", "e">>,
          <<"c", "o", "m", "p", "l", "e", "t", "e", " ", "s", "a", "v", "e">>, <<"I", "n", " ", "C", "o", "m", "p", "l", "e", "t", "e", " ", "S", "a", "v", "e">>, <<>>}
    [] name = <<"S", "h", "o", "w", "P", "l", "a", "y", "e", "r", "s">> -> PlayerTables
    [] name = <<"S", "h", "u", "t", "d", "o", "w", "n">> ->
         {<<"T", "h", "e", " ", "s", "e", "r", "v", "e", "r", " ", "w", "i", "l", "l", " ", "s", "h", "u", "t", " ", "d", "o", "w", "n">>, <<" ", "T", "h", "e", " ", "s", "e", "r", "v", "e", "r", " ", "w", "i", "l", "l", " ", "s", "h", "u", "t", " ", "d", "o", "w", "n", " ", "i", "n", " ", "5", " ", "s", "e", "c", "o", "n", "d", "s", ".", "\n">>,
          <<"T", "h", "e", " ", "s", "e", "r", "v", "e", "r", " ", "w", "i", "l", "l", " ", "s", "h", "u", "t", " ", "d", "o", "w">>, <<"T", "h", "e", " ", "s", "e", "r", "v", "e", "r", " ", "w", "i", "l", "l", " ", "s", "h", "u", "t", "d", "o", "w", "n">>,
          <<"t", "h", "e", " ", "s", "e", "r", "v", "e", "r", " ", "w", "i", "l", "l", " ", "s", "h", "u", "t", " ", "d", "o", "w", "n">>, <<"S", "o", " ", "T", "h", "e", " ", "s", "e", "r", "v", "e", "r", " ", "w", "i", "l", "l", " ", "s", "h", "u", "t", " ", "d", "o", "w", "n">>, <<>>}
    [] OTHER -> {<< >>}

\* What the server at address answers.
RepliesOf(address, command) ==
  IF address \in OtherAddresses THEN OtherReplies(command) ELSE Replies(command)

\* rcon.Conn.Execute(command), called on connection id: a reply, or an error (with whatever body was read).
Execute(st, id, command) ==
  { [st |-> [st EXCEPT !.log = Append(@, [Entry(st, "Execute", id, command, o.err)
                                    EXCEPT !.reply = o.response])],
     response |-> o.response, err |-> o.err] :
    o \in { [response |-> r, err |-> Nil] : r \in RepliesOf(st.conns[id].address, command) }
          \cup { [response |-> << >>, err |-> e] : e \in ExecuteErrors \ {ErrInvalidPacketID} }
          \cup { [response |-> <<"j", "u", "n", "k">>, err |-> ErrInvalidPacketID] } }

----------------------------------------------------------------------------
\* The connection manager.

NewClient(address, password) ==
  [address |-> address, password |-> password, conn |-> 0]

\* Close as it would be if a failed close kept the connection.
CloseKeepOnError(st) ==
  IF st.client.conn = 0
  THEN { [st |-> st, err |-> Nil] }
  ELSE { [st |-> IF o.err = Nil THEN [o.st EXCEPT !.client.conn = 0] ELSE o.st,
          err |-> o.err] :
         o \in ConnClose(st, st.client.conn) }

\* Close as it would be if closing an unconnected Client were an error.
CloseStrict(st) ==
  IF st.client.conn = 0
  THEN { [st |-> st, err |-> ErrCloseFailed] }
  ELSE { [st |-> [o.st EXCEPT !.client.conn = 0], err |-> o.err] :
         o \in ConnClose(st, st.client.conn) }

\* Close as it would be if it dropped the error of the connection's Close.
CloseSwallow(st) ==
  IF st.client.conn = 0
  THEN { [st |-> st, err |-> Nil] }
  ELSE { [st |-> [o.st EXCEPT !.client.conn = 0], err |-> Nil] :
         o \in ConnClose(st, st.client.conn) }

\* Client.Close: the set of [st, err] it may return with.
Close(st) ==
  IF st.client.conn = 0
  THEN { [st |-> st, err |-> Nil] }
  ELSE { [st |-> [o.st EXCEPT !.client.conn = 0], err |-> o.err] :
         o \in ConnClose(st, st.client.conn) }

\* connect as it would be if a failed dial put the old connection back.
connectRestore(st) ==
  LET released ==
        IF st.client.conn # 0
        THEN { [o.st EXCEPT !.client.conn = 0] : o \in ConnClose(st, st.client.conn) }
        ELSE { st }
  IN UNION { { IF d.err # Nil
               THEN [st |-> [d.st EXCEPT !.client.conn = st.client.conn], err |-> d.err]
               ELSE [st |-> [d.st EXCEPT !.client.conn = d.conn], err |-> Nil] :
               d \in Dial(s, s.client.address, s.client.password) } :
             s \in released }

\* connect as it would be if it dropped the old connection without closing it.
connectLeak(st) ==
  { IF d.err # Nil
    THEN [st |-> d.st, err |-> d.err]
    ELSE [st |-> [d.st EXCEPT !.client.conn = d.conn], err |-> Nil] :
    d \in Dial([st EXCEPT !.client.conn = 0], st.client.address, st.client.password) }

\* Client.connect: the set of [st, err] it may return with.
connect(st) ==
  LET released ==
        IF st.client.conn # 0
        THEN { [o.st EXCEPT !.client.conn = 0] : o \in ConnClose(st, st.client.conn) }
        ELSE { st }
  IN UNION { { IF d.err # Nil
               THEN [st |-> d.st, err |-> d.err]
               ELSE [st |-> [d.st EXCEPT !.client.conn = d.conn], err |-> Nil] :
               d \in Dial(s, s.client.address, s.client.password) } :
             s \in released }

----------------------------------------------------------------------------
\* The command executor.

\* The test as it would be if every error were taken for a severed connection.
IsSeveredAny(err) == err # Nil

\* The test as it would be if it looked for io.EOF alone.
IsSeveredEOFOnly(err) == errorsIs(err, EOF)

\* The test of rcon.go line 69 on the error of Execute.
IsSevered(err) == errorsIs(err, EOF) \/ errorsIs(err, EPIPE)

\* executeWithRetry as it would be if a failed retried attempt reported the
\* error of the first attempt.
executeWithRetryFirstError(st, command, retry) ==
  LET connected ==
        IF st.client.conn = 0 THEN connect(st) ELSE { [st |-> st, err |-> Nil] }
  IN UNION {
       IF k.err # Nil
       THEN { [st |-> k.st, response |-> << >>, err |-> k.err] }
       ELSE UNION {
              IF IsSevered(x.err) /\ retry
              THEN UNION {
                     IF r.err # Nil
                     THEN { [st |-> r.st, response |-> << >>, err |-> r.err] }
                     ELSE { [st |-> y.st, response |-> TrimSpace(y.response),
                             err |-> IF y.err # Nil THEN x.err ELSE Nil] :
                            y \in Execute(r.st, r.st.client.conn, command) } :
                     r \in connect(x.st) }
              ELSE { [st |-> x.st, response |-> TrimSpace(x.response), err |-> x.err] } :
              x \in Execute(k.st, k.st.client.conn, command) } :
       k \in connected }

\* executeWithRetry as it would be if the flag allowed two retries instead of one.
executeWithRetryTwice(st, command, retry) ==
  LET RECURSIVE attempt(_, _)
      attempt(s, left) ==
        LET connected ==
              IF s.client.conn = 0 THEN connect(s) ELSE { [st |-> s, err |-> Nil] }
        IN UNION {
             IF k.err # Nil
             THEN { [st |-> k.st, response |-> << >>, err |-> k.err] }
             ELSE UNION {
                    IF IsSevered(x.err) /\ left > 0
                    THEN UNION {
                           IF r.err # Nil
                           THEN { [st |-> r.st, response |-> << >>, err |-> r.err] }
                           ELSE attempt(r.st, left - 1) :
                           r \in connect(x.st) }
                    ELSE { [st |-> x.st, response |-> TrimSpace(x.response), err |-> x.err] } :
                    x \in Execute(k.st, k.st.client.conn, command) } :
             k \in connected }
  IN attempt(st, IF retry THEN 2 ELSE 0)

\* Client.executeWithRetry: the set of [st, response, err] it may return with.
RECURSIVE executeWithRetry(_, _, _)
executeWithRetry(st, command, retry) ==
  LET connected ==
        IF st.client.conn = 0 THEN connect(st) ELSE { [st |-> st, err |-> Nil] }
  IN UNION {
       IF k.err # Nil
       THEN { [st |-> k.st, response |-> << >>, err |-> k.err] }
       ELSE UNION {
              IF IsSevered(x.err) /\ retry
              THEN UNION {
                     IF r.err # Nil
                     THEN { [st |-> r.st, response |-> << >>, err |-> r.err] }
                     ELSE executeWithRetry(r.st, command, FALSE) :
                     r \in connect(x.st) }
              ELSE { [st |-> x.st, response |-> TrimSpace(x.response), err |-> x.err] } :
              x \in Execute(k.st, k.st.client.conn, command) } :
       k \in connected }

----------------------------------------------------------------------------
\* Decoding helpers: encoding/csv, strconv and regexp as rcon.go uses them.

Digits == {"0", "1", "2", "3", "4", "5", "6", "7", "8", "9"}

\* The number of leading characters of s that are in set.
RECURSIVE Span(_, _)
Span(s, set) ==
  IF s # << >> /\ Head(s) \in set THEN 1 + Span(Tail(s), set) ELSE 0

\* The number of leading characters of s that are not ch.
RECURSIVE Until(_, _)
Until(s, ch) ==
  IF s # << >> /\ Head(s) # ch THEN 1 + Until(Tail(s), ch) ELSE 0

\* s cut at every ch.
RECURSIVE SplitOn(_, _)
SplitOn(s, ch) ==
  LET n == Until(s, ch) IN
  IF n = Len(s) THEN <<s>>
  ELSE <<SubSeq(s, 1, n)>> \o SplitOn(SubSeq(s, n + 2, Len(s)), ch)

ErrFieldCount == NewError(<<"w", "r", "o", "n", "g", " ", "n", "u", "m", "b", "e", "r", " ", "o", "f", " ", "f", "i", "e", "l", "d", "s">>)

\* csv.Reader.ReadAll with the default settings, for text without double quotes:
\* one record per non-empty line, and every record as long as the first.
RECURSIVE ReadRecords(_, _, _)
ReadRecords(lines, i, acc) ==
  IF i > Len(lines) THEN [records |-> acc, err |-> Nil]
  ELSE LET raw == lines[i]
           line == IF raw # << >> /\ raw[Len(raw)] = "\r"
                   THEN SubSeq(raw, 1, Len(raw) - 1) ELSE raw
       IN IF line = << >> THEN ReadRecords(lines, i + 1, acc)
          ELSE LET fields == SplitOn(line, ",") IN
               IF acc # << >> /\ Len(fields) # Len(acc[1])
               THEN [records |-> << >>,
                     err |-> Wrapf(<<"r", "e", "c", "o", "r", "d", " ", "o", "n", " ", "l", "i", "n", "e", " ">> \o FormatInt(i) \o <<":", " ">>, ErrFieldCount)]
               ELSE ReadRecords(lines, i + 1, Append(acc, fields))

ReadAll(s) == ReadRecords(SplitOn(s, "\n"), 1, << >>)

ErrSyntax == NewError(<<"i", "n", "v", "a", "l", "i", "d", " ", "s", "y", "n", "t", "a", "x">>)
ErrRange == NewError(<<"v", "a", "l", "u", "e", " ", "o", "u", "t", " ", "o", "f", " ", "r", "a", "n", "g", "e">>)

\* math.MaxUint64, 18446744073709551615, digit by digit.
MaxUint64 == <<1, 8, 4, 4, 6, 7, 4, 4, 0, 7, 3, 7, 0, 9, 5, 5, 1, 6, 1, 5>>

DigitValue(ch) == CHOOSE d \in 0..9 : DigitChar(d) = ch

\* a <= b for two numerals without leading zeros.
NumeralLeq(a, b) ==
  \/ Len(a) < Len(b)
  \/ /\ Len(a) = Len(b)
     /\ \/ a = b
        \/ \E i \in 1..Len(a) : a[i] < b[i] /\ \A j \in 1..(i - 1) : a[j] = b[j]

\* strconv.ParseUint(s, 10, 64): [value, err].  A uint64 is held as its decimal
\* digits without leading zeros, since it may exceed the integers TLC can hold.
ParseUint(s) ==
  LET numError(e) == Wrapf(<<"s", "t", "r", "c", "o", "n", "v", ".", "P", "a", "r", "s", "e", "U", "i", "n", "t", ":", " ", "p", "a", "r", "s", "i", "n", "g", " ", "\"">> \o s \o <<"\"", ":", " ">>, e)
  IN IF s = << >> \/ \E i \in 1..Len(s) : s[i] \notin Digits
     THEN [value |-> <<0>>, err |-> numError(ErrSyntax)]
     ELSE LET zeros == Span(s, {"0"})
              kept == IF zeros = Len(s) THEN <<"0">> ELSE SubSeq(s, zeros + 1, Len(s))
              value == [i \in 1..Len(kept) |-> DigitValue(kept[i])]
          IN IF NumeralLeq(value, MaxUint64)
             THEN [value |-> value, err |-> Nil]
             ELSE [value |-> MaxUint64, err |-> numError(ErrRange)]

\* fmt's %v of a []string.
RECURSIVE JoinFields(_)
JoinFields(record) ==
  IF record = << >> THEN << >>
  ELSE IF Len(record) = 1 THEN record[1]
  ELSE record[1] \o <<" ">> \o JoinFields(Tail(record))

FormatStrings(record) == <<"[">> \o JoinFields(record) \o <<"]">>

\* infoRegex.FindStringSubmatch(s): << >> (no match) or <<s, version, name>>.
\* ^Welcome to Pal Server\[v([\d\.]+)\]\s*(.*?)$
infoRegex(s) ==
  LET prefix == <<"W", "e", "l", "c", "o", "m", "e", " ", "t", "o", " ", "P", "a", "l", " ", "S", "e", "r", "v", "e", "r", "[", "v">> IN
  IF ~HasPrefix(s, prefix) THEN << >>
  ELSE LET rest == SubSeq(s, Len(prefix) + 1, Len(s))
           n == Span(rest, Digits \cup {"."})
           after == SubSeq(rest, n + 1, Len(rest))
       IN IF n = 0 \/ after = << >> \/ Head(after) # "]" THEN << >>
          ELSE LET tail == Tail(after)
                   name == SubSeq(tail, Span(tail, {" ", "\t", "\n", "\f", "\r"}) + 1, Len(tail))
               IN IF \E i \in 1..Len(name) : name[i] = "\n" THEN << >>
                  ELSE <<s, SubSeq(rest, 1, n), name>>

----------------------------------------------------------------------------
\* The public commands: each yields the set of results it may return with,
\* [st, response, execErr, value, err, panic], where response and execErr are
\* what executeWithRetry returned to it.

Result(x, value, err) ==
  [st |-> x.st, response |-> x.response, execErr |-> x.err,
   value |-> value, err |-> err, panic |-> FALSE]

\* A run-time panic: the call does not return.
Panic(x) ==
  [st |-> x.st, response |-> x.response, execErr |-> x.err,
   value |-> << >>, err |-> Nil, panic |-> TRUE]

BanPlayer(st, steamID) ==
  { IF x.err # Nil THEN Result(x, << >>, x.err)
    ELSE IF ~HasPrefix(x.response, <<"B", "a", "n", "e", "d", ":", " ">>)
    THEN Result(x, << >>, NewError(<<"f", "a", "i", "l", "e", "d", " ", "t", "o", " ", "b", "a", "n", " ", "p", "l", "a", "y", "e", "r", ":", " ">> \o x.response))
    ELSE Result(x, << >>, Nil) :
    x \in executeWithRetry(st, <<"B", "a", "n", "P", "l", "a", "y", "e", "r", " ">> \o FormatInt(steamID), TRUE) }

Broadcast(st, message) ==
  { IF x.err # Nil THEN Result(x, << >>, x.err)
    ELSE IF ~HasPrefix(x.response, <<"B", "r", "o", "a", "d", "c", "a", "s", "t", "e", "d", ":", " ">>)
    THEN Result(x, << >>, NewError(<<"f", "a", "i", "l", "e", "d", " ", "t", "o", " ", "b", "r", "o", "a", "d", "c", "a", "s", "t", ":", " ">> \o x.response))
    ELSE Result(x, << >>, Nil) :
    x \in executeWithRetry(st, <<"B", "r", "o", "a", "d", "c", "a", "s", "t", " ">> \o message, TRUE) }

\* DoExit as it would be if it looked for a prefix, as BanPlayer does.
DoExitPrefix(st) ==
  { IF x.err # Nil THEN Result(x, << >>, x.err)
    ELSE IF ~HasPrefix(x.response, <<"S", "h", "u", "t", "d", "o", "w", "n", ".", ".", ".">>)
         THEN Result(x, << >>, NewError(<<"f", "a", "i", "l", "e", "d", " ", "t", "o", " ", "s", "h", "u", "t", " ", "d", "o", "w", "n", ":", " ">> \o x.response))
         ELSE Result(x, << >>, Nil) :
    x \in executeWithRetry(st, <<"D", "o", "E", "x", "i", "t">>, TRUE) }

DoExit(st) ==
  { IF x.err # Nil THEN Result(x, << >>, x.err)
    ELSE IF x.response # <<"S", "h", "u", "t", "d", "o", "w", "n", ".", ".", ".">>
    THEN Result(x, << >>, NewError(<<"f", "a", "i", "l", "e", "d", " ", "t", "o", " ", "s", "h", "u", "t", " ", "d", "o", "w", "n", ":", " ">> \o x.response))
    ELSE Result(x, << >>, Nil) :
    x \in executeWithRetry(st, <<"D", "o", "E", "x", "i", "t">>, TRUE) }

\* The value is << >> for a nil *ServerInfo and <<info>> otherwise.
Info(st) ==
  { IF x.err # Nil THEN Result(x, << >>, x.err)
    ELSE LET infoMatches == infoRegex(x.response) IN
         IF infoMatches = << >>
         THEN Result(x, << >>, NewError(<<"f", "a", "i", "l", "e", "d", " ", "t", "o", " ", "p", "a", "r", "s", "e", " ", "I", "n", "f", "o", " ", "o", "u", "t", "p", "u", "t", ":", " ">> \o x.response))
         ELSE Result(x, <<[ServerName |-> infoMatches[3], Version |-> infoMatches[2]]>>, Nil) :
    x \in executeWithRetry(st, <<"I", "n", "f", "o">>, TRUE) }

KickPlayer(st, steamID) ==
  { IF x.err # Nil THEN Result(x, << >>, x.err)
    ELSE IF ~HasPrefix(x.response, <<"K", "i", "c", "k", "e", "d", ":", " ">>)
    THEN Result(x, << >>, NewError(<<"f", "a", "i", "l", "e", "d", " ", "t", "o", " ", "k", "i", "c", "k", " ", "p", "l", "a", "y", "e", "r", ":", " ">> \o x.response))
    ELSE Result(x, << >>, Nil) :
    x \in executeWithRetry(st, <<"K", "i", "c", "k", "P", "l", "a", "y", "e", "r", " ">> \o FormatInt(steamID), TRUE) }

Save(st) ==
  { IF x.err # Nil THEN Result(x, << >>, x.err)
    ELSE IF x.response # <<"C", "o", "m", "p", "l", "e", "t", "e", " ", "S", "a", "v", "e">>
    THEN Result(x, << >>, NewError(<<"f", "a", "i", "l", "e", "d", " ", "t", "o", " ", "s", "a", "v", "e", ":", " ">> \o x.response))
    ELSE Result(x, << >>, Nil) :
    x \in executeWithRetry(st, <<"S", "a", "v", "e">>, TRUE) }

\* The loop of ShowPlayers over records[1:]: [players, err].
RECURSIVE ParsePlayers(_, _)
ParsePlayers(records, players) ==
  IF records = << >> THEN [players |-> players, err |-> Nil]
  ELSE LET record == Head(records) IN
       IF Len(record) # 3
       THEN [players |-> players,
             err |-> NewError(<<"f", "a", "i", "l", "e", "d", " ", "t", "o", " ", "p", "a", "r", "s", "e", " ", "p", "l", "a", "y", "e", "r", " ", "o", "u", "t", "p", "u", "t", ":", " ">> \o FormatStrings(record))]
       ELSE LET playerUID == ParseUint(record[2]) IN
            IF playerUID.err # Nil
            THEN [players |-> players,
                  err |-> Wrapf(<<"f", "a", "i", "l", "e", "d", " ", "t", "o", " ", "p", "a", "r", "s", "e", " ", "p", "l", "a", "y", "e", "r", " ", "U", "I", "D", ":", " ">>, playerUID.err)]
            ELSE LET steamID == ParseUint(record[3]) IN
                 IF steamID.err # Nil
                 THEN [players |-> players,
                       err |-> Wrapf(<<"f", "a", "i", "l", "e", "d", " ", "t", "o", " ", "p", "a", "r", "s", "e", " ", "s", "t", "e", "a", "m", " ", "I", "D", ":", " ">>, steamID.err)]
                 ELSE ParsePlayers(Tail(records),
                        Append(players, [Name |-> record[1],
                                         PlayerUID |-> playerUID.value,
                                         SteamID |-> steamID.value]))

\* ShowPlayers as it would be if it decoded the header row as a player.
ShowPlayersWithHeader(st) ==
  { IF x.err # Nil THEN Result(x, << >>, x.err)
    ELSE LET read == ReadAll(TrimSpace(x.response)) IN
         IF read.err # Nil
         THEN Result(x, << >>, Wrapf(<<"f", "a", "i", "l", "e", "d", " ", "t", "o", " ", "p", "a", "r", "s", "e", " ", "S", "h", "o", "w", "P", "l", "a", "y", "e", "r", "s", " ", "r", "e", "s", "p", "o", "n", "s", "e", " ", "a", "s", " ", "C", "S", "V", ":", " ">>, read.err))
         ELSE LET parsed == ParsePlayers(read.records, << >>)
              IN Result(x, parsed.players, parsed.err) :
    x \in executeWithRetry(st, <<"S", "h", "o", "w", "P", "l", "a", "y", "e", "r", "s">>, TRUE) }

ShowPlayers(st) ==
  { IF x.err # Nil THEN Result(x, << >>, x.err)
    ELSE LET read == ReadAll(TrimSpace(x.response)) IN
         IF read.err # Nil
         THEN Result(x, << >>,
                Wrapf(<<"f", "a", "i", "l", "e", "d", " ", "t", "o", " ", "p", "a", "r", "s", "e", " ", "S", "h", "o", "w", "P", "l", "a", "y", "e", "r", "s", " ", "r", "e", "s", "p", "o", "n", "s", "e", " ", "a", "s", " ", "C", "S", "V", ":", " ">>, read.err))
         ELSE IF Len(read.records) < 1 THEN Panic(x)
         ELSE LET parsed == ParsePlayers(Tail(read.records), << >>) IN
              Result(x, parsed.players, parsed.err) :
    x \in executeWithRetry(st, <<"S", "h", "o", "w", "P", "l", "a", "y", "e", "r", "s">>, TRUE) }

\* shutdown as it would be if it returned the executor's error, as the other
\* commands do.
shutdownPropagate(st, args) ==
  { IF x.err # Nil THEN Result(x, << >>, x.err)
    ELSE IF ~HasPrefix(x.response, <<"T", "h", "e", " ", "s", "e", "r", "v", "e", "r", " ", "w", "i", "l", "l", " ", "s", "h", "u", "t", " ", "d", "o", "w", "n">>)
         THEN Result(x, << >>, NewError(<<"f", "a", "i", "l", "e", "d", " ", "t", "o", " ", "s", "h", "u", "t", " ", "d", "o", "w", "n", ":", " ">> \o x.response))
         ELSE Result(x, << >>, Nil) :
    x \in executeWithRetry(st, <<"S", "h", "u", "t", "d", "o", "w", "n", " ">> \o args, TRUE) }

shutdown(st, args) ==
  { IF x.err # Nil THEN Result(x, << >>, Nil)
    ELSE IF ~HasPrefix(x.response, <<"T", "h", "e", " ", "s", "e", "r", "v", "e", "r", " ", "w", "i", "l", "l", " ", "s", "h", "u", "t", " ", "d", "o", "w", "n">>)
    THEN Result(x, << >>, NewError(<<"f", "a", "i", "l", "e", "d", " ", "t", "o", " ", "s", "h", "u", "t", " ", "d", "o", "w", "n", ":", " ">> \o x.response))
    ELSE Result(x, << >>, Nil) :
    x \in executeWithRetry(st, <<"S", "h", "u", "t", "d", "o", "w", "n", " ">> \o args, TRUE) }

Shutdown(st, seconds) == shutdown(st, FormatInt(seconds))

ShutdownWithMessage(st, seconds, message) ==
  shutdown(st, FormatInt(seconds) \o <<" ">> \o message)

----------------------------------------------------------------------------
\* The calls a program makes on its Client, one at a time.

Addresses == {"127.0.0.1:25575"}
Passwords == {"password"}
SteamIDs == {42}
Messages == {<<"h", "i">>}
Seconds == {5}

CommandNames ==
  {"BanPlayer", "Broadcast", "DoExit", "Info", "KickPlayer", "Save", "ShowPlayers",
   "Shutdown", "ShutdownWithMessage"}

\* No Client has been constructed yet.
NoClient == [address |-> "", password |-> "", conn |-> 0]

\* last.prev is the call before: "none", "NewClient", "Close" or "command".
Kind(op) == IF op \in CommandNames THEN "command" ELSE op

NoCall ==
  [op |-> "none", prev |-> "none", conn |-> 0, response |-> << >>,
   execErr |-> Nil, value |-> << >>, err |-> Nil, panic |-> FALSE]

\* The calls of Spec are made one at a time, by one goroutine.
NoProcs == << >>

Init ==
  /\ client = NoClient
  /\ conns = << >>
  /\ log = << >>
  /\ last = NoCall
  /\ procs = NoProcs

\* The state a call starts from; the log is the call's own.
Now == [client |-> client, conns |-> conns, log |-> << >>]

Constructed == last.op # "none"

Running == Constructed /\ ~last.panic

\* NewClient as it would be if it connected at once.
CallNewClientEager ==
  /\ ~Constructed
  /\ \E address \in Addresses, password \in Passwords :
       \E r \in connect([client |-> NewClient(address, password),
                         conns |-> conns, log |-> << >>]) :
         /\ Len(r.st.conns) <= MaxConns
         /\ client' = r.st.client
         /\ conns' = r.st.conns
         /\ log' = r.st.log
  /\ last' = [NoCall EXCEPT !.op = "NewClient"]
  /\ UNCHANGED procs

CallNewClient ==
  /\ ~Constructed
  /\ \E address \in Addresses, password \in Passwords :
       client' = NewClient(address, password)
  /\ last' = [NoCall EXCEPT !.op = "NewClient"]
  /\ log' = << >>
  /\ UNCHANGED <<conns, procs>>

CallClose ==
  /\ Running
  /\ \E r \in Close(Now) :
       /\ client' = r.st.client
       /\ conns' = r.st.conns
       /\ log' = r.st.log
       /\ last' = [NoCall EXCEPT !.op = "Close", !.prev = Kind(last.op),
                                 !.conn = client.conn, !.err = r.err]
  /\ UNCHANGED procs

\* A command returns (or panics) with result r.
Return(op, r) ==
  /\ Len(r.st.conns) <= MaxConns
  /\ client' = r.st.client
  /\ conns' = r.st.conns
  /\ log' = r.st.log
  /\ last' = [op |-> op, prev |-> Kind(last.op), conn |-> client.conn,
              response |-> r.response, execErr |-> r.execErr, value |-> r.value,
              err |-> r.err, panic |-> r.panic]
  /\ UNCHANGED procs

CallBanPlayer ==
  /\ Running
  /\ \E steamID \in SteamIDs : \E r \in BanPlayer(Now, steamID) : Return("BanPlayer", r)

CallBroadcast ==
  /\ Running
  /\ \E message \in Messages : \E r \in Broadcast(Now, message) : Return("Broadcast", r)

CallDoExit ==
  /\ Running
  /\ \E r \in DoExit(Now) : Return("DoExit", r)

CallInfo ==
  /\ Running
  /\ \E r \in Info(Now) : Return("Info", r)

CallKickPlayer ==
  /\ Running
  /\ \E steamID \in SteamIDs : \E r \in KickPlayer(Now, steamID) : Return("KickPlayer", r)

CallSave ==
  /\ Running
  /\ \E r \in Save(Now) : Return("Save", r)

CallShowPlayers ==
  /\ Running
  /\ \E r \in ShowPlayers(Now) : Return("ShowPlayers", r)

CallShutdown ==
  /\ Running
  /\ \E seconds \in Seconds : \E r \in Shutdown(Now, seconds) : Return("Shutdown", r)

CallShutdownWithMessage ==
  /\ Running
  /\ \E seconds \in Seconds, message \in Messages :
       \E r \in ShutdownWithMessage(Now, seconds, message) :
         Return("ShutdownWithMessage", r)

Next ==
  \/ CallNewClient
  \/ CallClose
  \/ CallBanPlayer
  \/ CallBroadcast
  \/ CallDoExit
  \/ CallInfo
  \/ CallKickPlayer
  \/ CallSave
  \/ CallShowPlayers
  \/ CallShutdown
  \/ CallShutdownWithMessage

Spec == Init /\ [][Next]_vars

----------------------------------------------------------------------------
\* Reading the latest call.

IsCommand == last.op \in CommandNames

Returned == (IsCommand \/ last.op = "Close") /\ ~last.panic

DialIdx == {i \in 1..Len(log) : log[i].op = "Dial"}
ExecIdx == {i \in 1..Len(log) : log[i].op = "Execute"}
CloseIdx == {i \in 1..Len(log) : log[i].op = "Close"}

\* A severed-connection signal: end-of-stream or broken pipe, bare or wrapped.
SeveredSignal(err) ==
  \E i \in 1..Len(err) : NewError(err[i]) \in {EOF, EPIPE}

\* The call's first Execute, when it made one.
FirstExec == CHOOSE i \in ExecIdx : \A j \in ExecIdx : i <= j

FirstSevered == IsCommand /\ ExecIdx # {} /\ SeveredSignal(log[FirstExec].err)

\* The connections dialed and not yet closed.
Live == {i \in 1..Len(conns) : conns[i].closes = 0}

IsShutdown == last.op \in {"Shutdown", "ShutdownWithMessage"}

----------------------------------------------------------------------------
\* The claims.

\* C1 as stated: whenever a command's execute fails with a severed-connection
\* signal, exactly one reconnect and exactly one retried execute occur, and if
\* the retried execute is severed too nothing follows it and the caller gets
\* that error.
C1_AsStated ==
  FirstSevered =>
    /\ Cardinality({i \in DialIdx : i > FirstExec}) = 1
    /\ Cardinality(ExecIdx) = 2
    /\ \A i \in ExecIdx :
         i > FirstExec /\ SeveredSignal(log[i].err) =>
           i = Len(log) /\ last.err = log[i].err

\* C1: when a command's first execute fails with a severed-connection signal,
\* exactly one reconnect follows (one close of that connection, then one dial);
\* if the dial succeeds exactly one retried execute of the same command follows
\* on the new connection and nothing follows it, whatever its outcome; if the
\* dial fails nothing follows the dial.  The executor returns the error of the
\* last of these calls, and the caller gets it from every command but Shutdown
\* and ShutdownWithMessage, which return no error.
C1_ReconnectOnce ==
  FirstSevered =>
    LET i == FirstExec IN
    /\ Len(log) >= i + 2
    /\ log[i + 1].op = "Close" /\ log[i + 1].conn = log[i].conn
    /\ log[i + 2].op = "Dial"
    /\ IF log[i + 2].err = Nil
       THEN /\ Len(log) = i + 3
            /\ log[i + 3].op = "Execute"
            /\ log[i + 3].conn = log[i + 2].conn
            /\ log[i + 3].arg = log[i].arg
            /\ last.execErr = log[i + 3].err
       ELSE /\ Len(log) = i + 2
            /\ last.execErr = log[i + 2].err
    /\ last.execErr # Nil =>
         last.err = IF IsShutdown THEN Nil ELSE last.execErr

\* A command whose first and retried execute were both severed has returned an error.
C1_Witness ==
  /\ FirstSevered
  /\ Cardinality(ExecIdx) = 2
  /\ SeveredSignal(log[Len(log)].err)
  /\ last.err # Nil

\* C2: at most one connection is live (dialed and not closed) at any time; one
\* is live exactly when the Client owns a connection, and it is the owned one;
\* every connection the Client no longer refers to has had Close called on it.
C2_AtMostOneLive ==
  /\ Cardinality(Live) <= 1
  /\ (client.conn # 0) <=> (Cardinality(Live) = 1)
  /\ client.conn # 0 => Live = {client.conn}
  /\ \A i \in 1..Len(conns) : i # client.conn => conns[i].closes >= 1

\* The Client owns its third connection: two were replaced or closed before.
C2_Witness ==
  /\ Len(conns) >= 3
  /\ client.conn = Len(conns)
  /\ \A i \in 1..(Len(conns) - 1) : conns[i].closes = 1

\* C3 as stated: NewClient makes no transport call and leaves no connection
\* owned, and the first command on a new Client dials exactly once.
C3_AsStated ==
  /\ last.op = "NewClient" => log = << >> /\ client.conn = 0
  /\ IsCommand /\ last.prev = "NewClient" => Cardinality(DialIdx) = 1

\* C3: NewClient makes no transport call and leaves no connection owned; the
\* first command on a new Client starts with a dial, and dials exactly once
\* unless its first execute fails with a severed-connection signal, in which
\* case the reconnect dials once more.
C3_LazyConnect ==
  /\ last.op = "NewClient" => log = << >> /\ conns = << >> /\ client.conn = 0
  /\ IsCommand /\ last.prev = "NewClient" =>
       /\ log # << >>
       /\ log[1].op = "Dial"
       /\ \A i \in ExecIdx : i > 1
       /\ Cardinality(DialIdx) = IF FirstSevered THEN 2 ELSE 1

\* The first command on a new Client dialed once and its execute succeeded.
C3_Witness ==
  /\ IsCommand
  /\ last.prev = "NewClient"
  /\ Cardinality(DialIdx) = 1
  /\ Cardinality(ExecIdx) = 1
  /\ last.execErr = Nil

\* C4: when an execute fails with an error that is no severed-connection
\* signal, the command makes no further transport call and returns that error.
C4_AsStated ==
  IsCommand =>
    \A i \in ExecIdx :
      log[i].err # Nil /\ ~SeveredSignal(log[i].err) =>
        i = Len(log) /\ last.err = log[i].err

\* C5 as stated: after a command or Close returns, the Client owns nothing, or
\* owns the one live connection and no execute has failed on it.
C5_AsStated ==
  Returned =>
    \/ client.conn = 0
    \/ /\ Live = {client.conn}
       /\ \A i \in ExecIdx : log[i].conn = client.conn => log[i].err = Nil

\* C5: after a command or Close returns, the Client owns nothing (always so
\* after Close), or owns the one live connection; an execute of the call that
\* failed on the connection still owned was the call's last transport call,
\* and if it failed with a severed-connection signal it was the retried
\* attempt: a connection severed on the first attempt is never kept.
C5_WellDefined ==
  Returned =>
    /\ last.op = "Close" => client.conn = 0
    /\ client.conn # 0 => Live = {client.conn}
    /\ \A i \in ExecIdx :
         log[i].conn = client.conn /\ log[i].err # Nil =>
           /\ i = Len(log)
           /\ SeveredSignal(log[i].err) => i # FirstExec

\* A command returned leaving owned a connection whose retried execute was severed.
C5_Witness ==
  /\ Returned
  /\ IsCommand
  /\ client.conn # 0
  /\ Cardinality(ExecIdx) = 2
  /\ log[Len(log)].conn = client.conn
  /\ SeveredSignal(log[Len(log)].err)

\* C6: the command that follows a Close, whatever the Close returned, starts
\* with a dial to the stored address and secret; when the dial succeeds the
\* connection is a new one and the command executes on it; when it fails the
\* executor returns the dial's error and nothing else is called.
C6_ReconnectAfterClose ==
  [][ (last.op = "Close" /\ last'.op \in CommandNames) =>
        /\ log' # << >>
        /\ log'[1].op = "Dial"
        /\ log'[1].arg = <<client.address, client.password>>
        /\ IF log'[1].err = Nil
           THEN /\ log'[1].conn > Len(conns)
                /\ Len(log') >= 2
                /\ log'[2].op = "Execute"
                /\ log'[2].conn = log'[1].conn
           ELSE /\ Len(log') = 1
                /\ last'.execErr = log'[1].err ]_vars

\* A command after a Close dialed a further connection and succeeded on it.
C6_Witness ==
  /\ IsCommand
  /\ last.prev = "Close"
  /\ Len(conns) >= 2
  /\ client.conn = Len(conns)
  /\ last.execErr = Nil
  /\ last.err = Nil

\* C7: Close on a Client that owns no connection returns no error, makes no
\* transport call and leaves the Client and every connection as they were.
C7_IdempotentClose ==
  [][ (last'.op = "Close" /\ client.conn = 0) =>
        /\ last'.err = Nil
        /\ log' = << >>
        /\ client' = client
        /\ conns' = conns ]_vars

\* A second Close in a row, after a connection had been dialed.
C7_Witness ==
  /\ last.op = "Close"
  /\ last.prev = "Close"
  /\ last.conn = 0
  /\ Len(conns) >= 1
  /\ last.err = Nil

\* C8: Close on a Client that owns a connection calls Close on that connection
\* exactly once and makes no other transport call, leaves the Client owning
\* nothing whether that Close failed or not, and returns what it returned.
C8_CloseOwned ==
  last.op = "Close" /\ last.conn # 0 =>
    /\ Len(log) = 1
    /\ log[1].op = "Close"
    /\ log[1].conn = last.conn
    /\ log[1].err = last.err
    /\ conns[last.conn].closes = 1
    /\ client.conn = 0

\* A Close whose connection failed to close: the error came back, nothing is owned.
C8_Witness ==
  /\ last.op = "Close"
  /\ last.conn # 0
  /\ last.err # Nil
  /\ client.conn = 0

\* C9: whenever the executor returns an error, the command returns that same
\* error to its caller.
C9_AsStated ==
  IsCommand /\ last.execErr # Nil => last.err = last.execErr

\* C10: a command returns a value with no error, or an error with no (an
\* empty or absent) value.
C10_AsStated ==
  IsCommand /\ ~last.panic => last.err = Nil \/ last.value = << >>

\* C11: a command makes at most two executes and at most two dials (the lazy
\* dial and the reconnect's), hence at most one reconnect and five transport
\* calls in all, whatever the transport answers; each level of
\* executeWithRetry makes one execute, so its depth is at most 2.
C11_BoundedRetry ==
  IsCommand =>
    /\ Cardinality(ExecIdx) <= 2
    /\ Cardinality(DialIdx) <= 2
    /\ Cardinality(CloseIdx) <= 1
    /\ Len(log) <= 5
    /\ \A i \in DialIdx : i = 1 \/ (FirstSevered /\ i > FirstExec)

\* A command that used everything it may: two dials and two executes.
C11_Witness ==
  /\ IsCommand
  /\ Cardinality(ExecIdx) = 2
  /\ Cardinality(DialIdx) = 2
  /\ Len(log) = 5

----------------------------------------------------------------------------
\* Calls that overlap.  Goroutines share one Client and call its commands and
\* Close with or without a lock around each call; a step is one read or write
\* of r.conn, or one transport call, named by its line in rcon.go.  procs is
\* [mutex, lock, calls, proc], mutex telling whether the callers use the lock
\* and calls counting the calls begun, and proc[p] is [pc, retry, from, conn]:
\* the line p is at, the retry argument, the line that called connect, and
\* connect's local conn.  A nil r.conn used as a receiver is a nil-pointer panic, which
\* ends the program.

NumProcs == 2
MaxCalls == 3

Procs == 1..NumProcs

Idle == [pc |-> "idle", retry |-> FALSE, from |-> "", conn |-> 0]

InitConc ==
  /\ \E address \in Addresses, password \in Passwords :
       client = NewClient(address, password)
  /\ conns = << >>
  /\ log = << >>
  /\ last = [NoCall EXCEPT !.op = "NewClient"]
  /\ \E mutex \in BOOLEAN :
       procs = [mutex |-> mutex, lock |-> 0, calls |-> 0,
                proc |-> [p \in Procs |-> Idle]]

At(p, line) == procs.proc[p].pc = line

Panicked == \E p \in Procs : procs.proc[p].pc \in {"panic42", "panic50", "panic68"}

\* p moves to line, with its other locals as in rec.
Goto(p, line, rec) ==
  procs' = [procs EXCEPT !.proc[p] = [rec EXCEPT !.pc = line]]

\* p's call returns; the caller releases the lock it took.
ReturnToCaller(p) ==
  procs' = [procs EXCEPT !.proc[p].pc = "idle",
                         !.lock = IF procs.mutex THEN 0 ELSE @]

\* A caller begins Close (line 39) or a command, which all begin with
\* executeWithRetry(command, true) (line 62).
Begin(p) ==
  /\ At(p, "idle")
  /\ ~Panicked
  /\ procs.calls < MaxCalls
  /\ procs.mutex => procs.lock = 0
  /\ \E line \in {"39", "62"} :
       procs' = [procs EXCEPT
                   !.proc[p] = [pc |-> line, retry |-> TRUE, from |-> "", conn |-> 0],
                   !.calls = @ + 1,
                   !.lock = IF procs.mutex THEN p ELSE @]
  /\ UNCHANGED <<client, conns, log, last>>

\* Close, line 39: if r.conn == nil { return nil }
Line39(p) ==
  /\ At(p, "39") /\ ~Panicked
  /\ IF client.conn = 0 THEN ReturnToCaller(p) ELSE Goto(p, "42", procs.proc[p])
  /\ UNCHANGED <<client, conns, log, last>>

\* Close, line 42: err := r.conn.Close()
Line42(p) ==
  /\ At(p, "42") /\ ~Panicked
  /\ IF client.conn = 0
     THEN Goto(p, "panic42", procs.proc[p]) /\ UNCHANGED conns
     ELSE /\ conns' = [conns EXCEPT ![client.conn].closes = @ + 1]
          /\ Goto(p, "43", procs.proc[p])
  /\ UNCHANGED <<client, log, last>>

\* Close, lines 43-44: r.conn = nil; return err
Line43(p) ==
  /\ At(p, "43") /\ ~Panicked
  /\ client' = [client EXCEPT !.conn = 0]
  /\ ReturnToCaller(p)
  /\ UNCHANGED <<conns, log, last>>

\* connect, line 49: if r.conn != nil
Line49(p) ==
  /\ At(p, "49") /\ ~Panicked
  /\ Goto(p, IF client.conn # 0 THEN "50" ELSE "53", procs.proc[p])
  /\ UNCHANGED <<client, conns, log, last>>

\* Line 50 as it would be if connect did not close the connection it replaces.
Line50Skip(p) ==
  /\ At(p, "50") /\ ~Panicked
  /\ Goto(p, "51", procs.proc[p])
  /\ UNCHANGED <<client, conns, log, last>>

\* connect, line 50: r.conn.Close()
Line50(p) ==
  /\ At(p, "50") /\ ~Panicked
  /\ IF client.conn = 0
     THEN Goto(p, "panic50", procs.proc[p]) /\ UNCHANGED conns
     ELSE /\ conns' = [conns EXCEPT ![client.conn].closes = @ + 1]
          /\ Goto(p, "51", procs.proc[p])
  /\ UNCHANGED <<client, log, last>>

\* connect, line 51: r.conn = nil
Line51(p) ==
  /\ At(p, "51") /\ ~Panicked
  /\ client' = [client EXCEPT !.conn = 0]
  /\ Goto(p, "53", procs.proc[p])
  /\ UNCHANGED <<conns, log, last>>

\* connect, lines 53-56: conn, err := rcon.Dial(...); on an error connect returns
\* it, and so does executeWithRetry (lines 64-66 and 71-73).
Line53(p) ==
  /\ At(p, "53") /\ ~Panicked
  /\ \/ /\ ReturnToCaller(p)
        /\ UNCHANGED conns
     \/ /\ Len(conns) < MaxConns
        /\ conns' = Append(conns, [address |-> client.address,
                                   password |-> client.password, closes |-> 0])
        /\ Goto(p, "57", [procs.proc[p] EXCEPT !.conn = Len(conns) + 1])
  /\ UNCHANGED <<client, log, last>>

\* connect, lines 57-58: r.conn = conn; return nil.  Called from line 63 the
\* execute follows; called from line 70, executeWithRetry(command, false).
Line57(p) ==
  /\ At(p, "57") /\ ~Panicked
  /\ client' = [client EXCEPT !.conn = procs.proc[p].conn]
  /\ IF procs.proc[p].from = "63"
     THEN Goto(p, "68", [procs.proc[p] EXCEPT !.conn = 0])
     ELSE Goto(p, "62", [procs.proc[p] EXCEPT !.conn = 0, !.retry = FALSE])
  /\ UNCHANGED <<conns, log, last>>

\* executeWithRetry, lines 62-63: if r.conn == nil { err := r.connect() }
Line62(p) ==
  /\ At(p, "62") /\ ~Panicked
  /\ IF client.conn = 0
     THEN Goto(p, "49", [procs.proc[p] EXCEPT !.from = "63"])
     ELSE Goto(p, "68", procs.proc[p])
  /\ UNCHANGED <<client, conns, log, last>>

\* executeWithRetry, lines 68-76: response, err := r.conn.Execute(command); on
\* a severed connection with retry set, connect (line 70); otherwise return.
Line68(p) ==
  /\ At(p, "68") /\ ~Panicked
  /\ IF client.conn = 0
     THEN Goto(p, "panic68", procs.proc[p])
     ELSE \E err \in {Nil} \cup ExecuteErrors :
            IF IsSevered(err) /\ procs.proc[p].retry
            THEN Goto(p, "49", [procs.proc[p] EXCEPT !.from = "70"])
            ELSE ReturnToCaller(p)
  /\ UNCHANGED <<client, conns, log, last>>

NextConc ==
  \E p \in Procs :
    \/ Begin(p)
    \/ Line39(p)
    \/ Line42(p)
    \/ Line43(p)
    \/ Line49(p)
    \/ Line50(p)
    \/ Line51(p)
    \/ Line53(p)
    \/ Line57(p)
    \/ Line62(p)
    \/ Line68(p)

SpecConc == InitConc /\ [][NextConc]_vars

\* A connection that was dialed, never closed, and that neither r.conn nor a
\* connect about to store it refers to any more.
Leaked ==
  \E i \in 1..Len(conns) :
    /\ conns[i].closes = 0
    /\ i # client.conn
    /\ \A p \in Procs : ~(At(p, "57") /\ procs.proc[p].conn = i)

\* C12: when the callers serialize their calls, no connection is ever leaked
\* and neither Execute nor Close is ever called on a nil r.conn; when they do
\* not, both a leaked connection and an Execute on a nil r.conn are reachable
\* (the witness).
C12_SerializedIsSafe ==
  procs.mutex => ~Leaked /\ ~Panicked /\ Cardinality(Live) <= 1

\* Without the lock: one connection has leaked and an Execute found r.conn nil.
C12_Witness ==
  /\ ~procs.mutex
  /\ Leaked
  /\ \E p \in Procs : At(p, "panic68")

----------------------------------------------------------------------------
\* One command, called on a new Client of the second server: the decoders
\* applied to every reply of its repertoire, over every outcome of the
\* transport.

InitDecode ==
  /\ \E address \in OtherAddresses, password \in Passwords :
       client = NewClient(address, password)
  /\ conns = << >>
  /\ log = << >>
  /\ last = [NoCall EXCEPT !.op = "NewClient"]
  /\ procs = NoProcs

\* The Client has not been used yet.
Unused == last.op = "NewClient"

DecodeBanPlayer == Unused /\ CallBanPlayer
DecodeBroadcast == Unused /\ CallBroadcast
DecodeDoExit == Unused /\ CallDoExit
DecodeInfo == Unused /\ CallInfo
DecodeKickPlayer == Unused /\ CallKickPlayer
DecodeSave == Unused /\ CallSave
DecodeShowPlayers == Unused /\ CallShowPlayers
DecodeShutdown == Unused /\ CallShutdown
DecodeShutdownWithMessage == Unused /\ CallShutdownWithMessage

NextDecode ==
  \/ DecodeBanPlayer
  \/ DecodeBroadcast
  \/ DecodeDoExit
  \/ DecodeInfo
  \/ DecodeKickPlayer
  \/ DecodeSave
  \/ DecodeShowPlayers
  \/ DecodeShutdown
  \/ DecodeShutdownWithMessage

SpecDecode == InitDecode /\ [][NextDecode]_vars

\* The latest command's last transport call was an Execute that succeeded.
TransportSucceeded ==
  /\ IsCommand
  /\ log # << >>
  /\ log[Len(log)].op = "Execute"
  /\ log[Len(log)].err = Nil

\* The reply that Execute read, as the server sent it, and trimmed.
RawReply == log[Len(log)].reply
Trimmed == TrimSpace(RawReply)

\* text ends with s.
HasSuffix(text, s) ==
  Len(s) <= Len(text) /\ SubSeq(text, Len(text) - Len(s) + 1, Len(text)) = s

UnitCommands ==
  {"BanPlayer", "Broadcast", "DoExit", "KickPlayer", "Save", "Shutdown", "ShutdownWithMessage"}

\* What each unit-result command looks for in the trimmed response.
Accepts(op, s) ==
  CASE op = "BanPlayer" -> HasPrefix(s, <<"B", "a", "n", "e", "d", ":", " ">>)
    [] op = "Broadcast" -> HasPrefix(s, <<"B", "r", "o", "a", "d", "c", "a", "s", "t", "e", "d", ":", " ">>)
    [] op = "KickPlayer" -> HasPrefix(s, <<"K", "i", "c", "k", "e", "d", ":", " ">>)
    [] op \in {"Shutdown", "ShutdownWithMessage"} -> HasPrefix(s, <<"T", "h", "e", " ", "s", "e", "r", "v", "e", "r", " ", "w", "i", "l", "l", " ", "s", "h", "u", "t", " ", "d", "o", "w", "n">>)
    [] op = "DoExit" -> s = <<"S", "h", "u", "t", "d", "o", "w", "n", ".", ".", ".">>
    [] op = "Save" -> s = <<"C", "o", "m", "p", "l", "e", "t", "e", " ", "S", "a", "v", "e">>

\* C13: when the transport call of a unit-result command succeeded, the
\* command returns no error exactly when the trimmed response passes the
\* command's test (a prefix for BanPlayer, Broadcast, KickPlayer and Shutdown,
\* equality for DoExit and Save), and otherwise returns a single error whose
\* text ends with the trimmed response.
C13_SuccessPredicate ==
  last.op \in UnitCommands /\ TransportSucceeded =>
    /\ ~last.panic
    /\ last.response = Trimmed
    /\ (last.err = Nil) <=> Accepts(last.op, Trimmed)
    /\ last.err # Nil =>
         /\ Len(last.err) = 1
         /\ HasSuffix(last.err[1], Trimmed)
         /\ Len(last.err[1]) > Len(Trimmed)

\* DoExit answered with the accepted text followed by more: the prefix is
\* there, the equality is not, and the error carries the trimmed response.
C13_Witness ==
  /\ last.op = "DoExit"
  /\ TransportSucceeded
  /\ RawReply # Trimmed
  /\ HasPrefix(Trimmed, <<"S", "h", "u", "t", "d", "o", "w", "n", ".", ".", ".">>)
  /\ Trimmed # <<"S", "h", "u", "t", "d", "o", "w", "n", ".", ".", ".">>
  /\ last.err # Nil

----------------------------------------------------------------------------
\* The table ShowPlayers decodes: the rows of the trimmed response are its
\* non-empty lines, the first one the header, and a row's columns are what
\* its commas separate.
Rows == SelectSeq(SplitOn(Trimmed, "\n"), LAMBDA line : line # << >>)
Columns(row) == SplitOn(row, ",")
Header == Columns(Rows[1])
DataRows == [i \in 1..(Len(Rows) - 1) |-> Columns(Rows[i + 1])]

\* The number a field of decimal digits denotes, without leading zeros.
Numeral(field) ==
  LET zeros == Span(field, {"0"})
      kept == IF zeros = Len(field) THEN <<"0">> ELSE SubSeq(field, zeros + 1, Len(field))
  IN [i \in 1..Len(kept) |-> DigitValue(kept[i])]

\* field is a decimal integer of the unsigned 64-bit range.
IsUint64(field) ==
  /\ field # << >>
  /\ \A i \in 1..Len(field) : field[i] \in Digits
  /\ NumeralLeq(Numeral(field), MaxUint64)

BadRow(row) == Len(row) # 3 \/ ~IsUint64(row[2]) \/ ~IsUint64(row[3])

PlayerOf(row) ==
  [Name |-> row[1], PlayerUID |-> Numeral(row[2]), SteamID |-> Numeral(row[3])]

\* ShowPlayers read a response that has a header row.
ReadTable ==
  /\ last.op = "ShowPlayers"
  /\ TransportSucceeded
  /\ Len(Rows) >= 1

\* One Player per data row, in row order, and no error.
DecodedAll ==
  /\ last.err = Nil
  /\ last.value = [i \in 1..Len(DataRows) |-> PlayerOf(DataRows[i])]

----------------------------------------------------------------------------
\* C15: within a command, every dial is made while the Client owns nothing and
\* with the address and password given at construction; if a connection was
\* owned when connect began, the call just before the dial is the Close of
\* that connection, and the dial follows whatever that Close returned; a dial
\* that succeeds makes the new connection the owned one, on which the next
\* execute runs; a dial that fails ends the command with the Client owning
\* nothing, the old connection closed and not restored, and the dial's error
\* returned by connect.
C15_Connect ==
  IsCommand =>
    /\ \A j \in DialIdx :
         /\ log[j].owned = 0
         /\ log[j].arg = <<client.address, client.password>>
         /\ IF j = 1
            THEN last.conn = 0
            ELSE /\ log[j - 1].op = "Close"
                 /\ log[j - 1].owned # 0
                 /\ log[j - 1].conn = log[j - 1].owned
                 /\ conns[log[j - 1].conn].closes = 1
         /\ IF log[j].err = Nil
            THEN /\ j < Len(log)
                 /\ log[j + 1].op = "Execute"
                 /\ log[j + 1].owned = log[j].conn
                 /\ log[j + 1].conn = log[j].conn
                 /\ (\A k \in DialIdx : k <= j) => client.conn = log[j].conn
            ELSE /\ j = Len(log)
                 /\ client.conn = 0
                 /\ last.execErr = log[j].err
    /\ \A i \in CloseIdx : i < Len(log) /\ log[i + 1].op = "Dial"

\* A reconnect whose Close failed and whose dial then succeeded, the new
\* connection ending up owned.
C15_Witness ==
  /\ IsCommand
  /\ \E j \in DialIdx :
       /\ j > 1
       /\ log[j - 1].op = "Close"
       /\ log[j - 1].err # Nil
       /\ log[j].err = Nil
       /\ client.conn = log[j].conn
       /\ client.conn # last.conn

----------------------------------------------------------------------------
\* C16: a dial that fails ends the command, which returns the dial's error and
\* leaves the Client owning nothing; no dial and no execute follows it.  When
\* it was the dial on demand, no execute was made at all; when it was the
\* reconnect after a severed-connection signal, the severed execute was the
\* only one, and the error returned is the dial's, not the signal.
C16_AsStated ==
  IsCommand =>
    \A j \in DialIdx :
      log[j].err # Nil =>
        /\ j = Len(log)
        /\ client.conn = 0
        /\ last.err = log[j].err
        /\ ~SeveredSignal(last.err)
        /\ IF last.conn = 0 /\ j = 1
           THEN ExecIdx = {}
           ELSE /\ Cardinality(ExecIdx) = 1
                /\ FirstSevered
                /\ FirstExec < j

----------------------------------------------------------------------------
\* The execute a command made after its reconnect, when it made one.
Retried == CHOOSE i \in ExecIdx : i > FirstExec

\* C17: after a severed-connection signal and a reconnect that succeeded, the
\* same command is executed once more, on the new connection, and nothing
\* follows it; what the executor returns is that attempt's outcome: its reply,
\* trimmed, and its error, none when it succeeded, whatever the first attempt
\* failed with.
C17_RetriedOutcome ==
  FirstSevered /\ (\E j \in DialIdx : j > FirstExec /\ log[j].err = Nil) =>
    /\ Cardinality(ExecIdx) = 2
    /\ Retried = Len(log)
    /\ log[Retried - 1].op = "Dial"
    /\ log[Retried].arg = log[FirstExec].arg
    /\ log[Retried].conn = log[Retried - 1].conn
    /\ log[Retried].conn # log[FirstExec].conn
    /\ client.conn = log[Retried].conn
    /\ last.execErr = log[Retried].err
    /\ last.response = TrimSpace(log[Retried].reply)

\* The retried attempt failed with another error than the first, and the
\* executor returned the second.
C17_Witness ==
  /\ FirstSevered
  /\ Cardinality(ExecIdx) = 2
  /\ log[Retried].err # Nil
  /\ log[Retried].err # log[FirstExec].err
  /\ last.execErr = log[Retried].err

----------------------------------------------------------------------------
\* C18: Shutdown and ShutdownWithMessage return no error whenever the executor
\* returned one, be it from the dial on demand, from the reconnect's dial or
\* from an execute; they return an error exactly when the transport succeeded
\* and the trimmed response does not begin with "The server will shut down".
C18_SwallowedError ==
  IsShutdown =>
    /\ ~last.panic
    /\ last.execErr # Nil <=> ~TransportSucceeded
    /\ last.execErr # Nil => last.err = Nil
    /\ last.err # Nil <=>
         TransportSucceeded /\ ~HasPrefix(Trimmed, <<"T", "h", "e", " ", "s", "e", "r", "v", "e", "r", " ", "w", "i", "l", "l", " ", "s", "h", "u", "t", " ", "d", "o", "w", "n">>)

\* The reconnect's dial failed after a severed execute, and ShutdownWithMessage
\* returned no error.
C18_Witness ==
  /\ last.op = "ShutdownWithMessage"
  /\ FirstSevered
  /\ log[Len(log)].op = "Dial"
  /\ log[Len(log)].err # Nil
  /\ last.execErr = log[Len(log)].err
  /\ last.err = Nil

----------------------------------------------------------------------------
\* The latest command ended on an execute that failed and was not followed by
\* a reconnect: its error is no severed-connection signal, or it was the
\* retried attempt.
EndedOnFailedExecute ==
  /\ IsCommand
  /\ log # << >>
  /\ log[Len(log)].op = "Execute"
  /\ log[Len(log)].err # Nil
  /\ ~SeveredSignal(log[Len(log)].err) \/ Cardinality(ExecIdx) = 2

\* The step is a command that begins with a severed execute on the connection
\* owned before it, followed by the Close of that connection.
SeveredFirstAttempt ==
  /\ last'.op \in CommandNames
  /\ Len(log') >= 2
  /\ log'[1].op = "Execute"
  /\ log'[1].conn = client.conn
  /\ SeveredSignal(log'[1].err)
  /\ log'[2].op = "Close"
  /\ log'[2].conn = client.conn

\* C19: a command that ended on a failed execute without a reconnect leaves the
\* Client owning the connection that execute ran on, not closed; the command
\* after it begins with an execute on that connection, without a dial before
\* it; and an owned connection is closed, released or replaced only by Close
\* or by a command whose first execute, on that connection, met a
\* severed-connection signal.
C19_KeptInPlace ==
  /\ [](EndedOnFailedExecute =>
          /\ client.conn # 0
          /\ client.conn = log[Len(log)].conn
          /\ conns[client.conn].closes = 0)
  /\ [][EndedOnFailedExecute /\ last'.op \in CommandNames =>
          /\ log'[1].op = "Execute"
          /\ log'[1].conn = client.conn
          /\ log'[1].owned = client.conn]_vars
  /\ [][client.conn # 0 /\ (client'.conn # client.conn
                             \/ conns'[client.conn].closes # conns[client.conn].closes) =>
          last'.op = "Close" \/ SeveredFirstAttempt]_vars

\* The retried attempt met a severed-connection signal too: no second
\* reconnect, and the connection it ran on is still owned and open.
C19_Witness ==
  /\ EndedOnFailedExecute
  /\ Cardinality(ExecIdx) = 2
  /\ SeveredSignal(log[Len(log)].err)
  /\ client.conn = log[Len(log)].conn
  /\ conns[client.conn].closes = 0

----------------------------------------------------------------------------
\* C20: ShowPlayers returns, with players or with an error, for every
\* response the transport delivers, an empty or whitespace-only one included.
\* It fails for such a response: the CSV reader yields no record, and skipping
\* the header row of none is a slice out of range, a run-time panic.
C20_AsStated ==
  last.op = "ShowPlayers" /\ TransportSucceeded => ~last.panic

====
